---------------------------- MODULE Spec2Model ----------------------------
(***************************************************************************)
(* LocalLindbladian (Sources/Operator/local_lindbladian.cc): the sparse    *)
(* "connection" generator of a Lindblad superoperator over the doubled      *)
(* Hilbert space.  The object holds H_, jump_ops_, Hnh_ and Hnh_dag_; its   *)
(* operations are the constructor, AddJumpOperator, ForEachConn and         *)
(* FindConn.  Each action below is one complete call; the variables after   *)
(* Hnh_dag_ are the frame of the most recent call (its arguments, what its  *)
(* callback received, and the contents of its output containers).           *)
(*                                                                          *)
(* LocalOperator and DoubledHilbert are collaborators whose code is not     *)
(* part of the sources at hand; they are modelled from their documented     *)
(* contract: a local operator is a matrix over the configurations of N      *)
(* two-valued sites, and enumerates the nonzero entries of one row.         *)
(***************************************************************************)
EXTENDS Integers, Sequences, FiniteSets

\* ------------------------------------------------------------- bounds
\* Largest physical size N = SizePhysical() that is explored.
MaxN == 2
\* Largest number of AddJumpOperator calls on one object.
MaxJumps == 2
\* A failure may be injected after the 1st .. MaxFault-th callback invocation.
MaxFault == 1

\* ------------------------------------------------- complex numbers
\* std::complex<double>.  Every value the model produces is a Gaussian
\* half-integer, which a double holds exactly; <<a, b>> stands for
\* (a + b*i)/2, so the arithmetic below is exact.
CZero == <<0, 0>>
COne == <<2, 0>>
CAdd(a, b) == <<a[1] + b[1], a[2] + b[2]>>
CMul(a, b) == <<(a[1] * b[1] - a[2] * b[2]) \div 2, (a[1] * b[2] + a[2] * b[1]) \div 2>>
CNeg(a) == <<0 - a[1], 0 - a[2]>>
CConj(a) == <<a[1], 0 - a[2]>>
\* Complex(0.0, 1.0)
im == <<0, 2>>
\* -0.5 * j
MinusHalfJ == <<0, 0 - 1>>

\* ------------------------------------------------- configurations
\* The sequence f, held element by element (the same value as f).
Vec(f) == f \o <<>>

RECURSIVE Pow2(_)
Pow2(n) == IF n = 0 THEN 1 ELSE 2 * Pow2(n - 1)

\* The configurations of n two-valued sites; site s (0-based, as in the
\* code) is position s + 1.
Confs(n) == [1..n -> {0, 1}]
\* The k-th of them in numeric order (site 0 most significant), k = 1 .. 2^n.
ConfAt(k, n) == Vec([i \in 1..n |-> ((k - 1) \div Pow2(n - i)) % 2])
\* The position of a configuration in that order.
RECURSIVE ConfIdx(_, _)
ConfIdx(conf, i) ==
  IF i > Len(conf) THEN 1 ELSE conf[i] * Pow2(Len(conf) - i) + ConfIdx(conf, i + 1)

\* ------------------------------------------------- LocalOperator
\* An operator over n sites: its matrix, M[ConfIdx(r, 1)][ConfIdx(c, 1)] = <r|O|c>.
ZeroOp(n) == Vec([i \in 1..Pow2(n) |-> Vec([j \in 1..Pow2(n) |-> CZero])])
\* The sum over the sites of sigma_x: flips the value of one site, any one,
\* with matrix element 1.0 and no diagonal.  On one site it is the flip.
FlipEach(n) ==
  Vec([i \in 1..Pow2(n) |-> Vec([j \in 1..Pow2(n) |->
     LET r == ConfAt(i, n)
         c == ConfAt(j, n)
     IN IF Cardinality({k \in 1..n : r[k] # c[k]}) = 1 THEN COne ELSE CZero])])
\* i * |0><1| on site s: connects value 0 to value 1, matrix element i.
ILower(n, s) ==
  Vec([i \in 1..Pow2(n) |-> Vec([j \in 1..Pow2(n) |->
     LET r == ConfAt(i, n)
         c == ConfAt(j, n)
     IN IF /\ r[s + 1] = 0 /\ c[s + 1] = 1
           /\ \A k \in 1..n : k # s + 1 => r[k] = c[k]
        THEN im ELSE CZero])])
\* |0><1| on site s: connects value 0 to value 1, matrix element 1.0.
Lower(n, s) ==
  Vec([i \in 1..Pow2(n) |-> Vec([j \in 1..Pow2(n) |->
     LET r == ConfAt(i, n)
         c == ConfAt(j, n)
     IN IF /\ r[s + 1] = 0 /\ c[s + 1] = 1
           /\ \A k \in 1..n : k # s + 1 => r[k] = c[k]
        THEN COne ELSE CZero])])
\* sigma_y on site s: <0|.|1> = -i, <1|.|0> = +i.
SigmaY(n, s) ==
  Vec([i \in 1..Pow2(n) |-> Vec([j \in 1..Pow2(n) |->
     LET r == ConfAt(i, n)
         c == ConfAt(j, n)
     IN IF \A k \in 1..n : k # s + 1 => r[k] = c[k]
        THEN (IF r[s + 1] = 0 /\ c[s + 1] = 1 THEN CNeg(im)
              ELSE IF r[s + 1] = 1 /\ c[s + 1] = 0 THEN im
              ELSE CZero)
        ELSE CZero])])

\* The Hamiltonians handed to the constructor and the operators handed to
\* AddJumpOperator.
HamSet(n) == {ZeroOp(n), SigmaY(n, 0), Lower(n, 0)}
JumpSet(n) == {FlipEach(n), ILower(n, n - 1)}

Conjugate(M) == Vec([i \in 1..Len(M) |-> Vec([j \in 1..Len(M) |-> CConj(M[i][j])])])
Transpose(M) == Vec([i \in 1..Len(M) |-> Vec([j \in 1..Len(M) |-> M[j][i]])])
OpAdd(A, B) == Vec([i \in 1..Len(A) |-> Vec([j \in 1..Len(A) |-> CAdd(A[i][j], B[i][j])])])
OpScale(z, M) == Vec([i \in 1..Len(M) |-> Vec([j \in 1..Len(M) |-> CMul(z, M[i][j])])])
OpMul(A, B) ==
  LET RECURSIVE dot(_, _, _)
      dot(i, j, k) == IF k > Len(A) THEN CZero
                      ELSE CAdd(CMul(A[i][k], B[k][j]), dot(i, j, k + 1))
  IN Vec([i \in 1..Len(A) |-> Vec([j \in 1..Len(A) |-> dot(i, j, 1)])])

\* The sites where two configurations differ, ascending, 0-based.
DiffSites(r, c) == SelectSeq([i \in 1..Len(r) |-> i - 1], LAMBDA s : r[s + 1] # c[s + 1])

\* One connection of a local operator: from configuration r to c.
ConnectorRef(m, r, c) ==
  LET d == DiffSites(r, c)
  IN [mel |-> m, tochange |-> d, newconf |-> Vec([j \in 1..Len(d) |-> c[d[j] + 1]])]

\* LocalOperator::ForEachConn(conf, callback): the connections the callback
\* receives, one per nonzero entry of row conf.
LocalForEachConn(M, conf) ==
  LET mrow == M[ConfIdx(conf, 1)]
      RECURSIVE row(_)
      row(k) == IF k > Len(mrow) THEN <<>>
                ELSE (IF mrow[k] # CZero
                      THEN <<ConnectorRef(mrow[k], conf, ConfAt(k, Len(conf)))>>
                      ELSE <<>>) \o row(k + 1)
  IN row(1)

\* ------------------------------------------------- state
VARIABLES N, H_, jump_ops_, Hnh_, Hnh_dag_,
          call, v, vrow, vcol, prior, outcome, superconns, delivered,
          mel, connectors, newconfs

obj == <<N, H_, jump_ops_, Hnh_, Hnh_dag_>>
vars == <<N, H_, jump_ops_, Hnh_, Hnh_dag_,
          call, v, vrow, vcol, prior, outcome, superconns, delivered,
          mel, connectors, newconfs>>

\* ------------------------------------------------- Init()
\* The loop left out: Hnh_ stays H_.
HnhLoopSkipped(acc, ops, k) == acc

\* The loop of LocalLindbladian::Init over jump_ops_, from position k on.
RECURSIVE HnhLoop(_, _, _)
HnhLoop(acc, ops, k) ==
  IF k > Len(ops) THEN acc
  ELSE HnhLoop(OpAdd(acc, OpMul(OpScale(MinusHalfJ, Transpose(Conjugate(ops[k]))), ops[k])),
               ops, k + 1)

\* LocalLindbladian::Init(): the pair (Hnh_, Hnh_dag_) it leaves behind.
InitDerived(H, ops) ==
  LET hnh == HnhLoop(H, ops, 1)
  IN [Hnh |-> hnh, Hnh_dag |-> Transpose(Conjugate(hnh))]

NoContents == [mel |-> <<>>, connectors |-> <<>>, newconfs |-> <<>>]

\* Calls are synchronous and single-threaded: one starts only once the one
\* before it has returned and its frame is gone.
Idle == call \notin {"ForEachConn", "FindConn"}

EmptyFrame(name) ==
  /\ call' = name
  /\ v' = <<>>
  /\ vrow' = <<>>
  /\ vcol' = <<>>
  /\ prior' = NoContents
  /\ outcome' = "ok"
  /\ superconns' = <<>>
  /\ delivered' = <<>>
  /\ mel' = <<>>
  /\ connectors' = <<>>
  /\ newconfs' = <<>>

\* LocalLindbladian::LocalLindbladian(H)
Init ==
  \E n \in 1..MaxN : \E H \in HamSet(n) :
    /\ N = n
    /\ H_ = H
    /\ jump_ops_ = <<>>
    /\ Hnh_ = InitDerived(H, <<>>).Hnh
    /\ Hnh_dag_ = InitDerived(H, <<>>).Hnh_dag
    /\ call = "LocalLindbladian"
    /\ v = <<>>
    /\ vrow = <<>>
    /\ vcol = <<>>
    /\ prior = NoContents
    /\ outcome = "ok"
    /\ superconns = <<>>
    /\ delivered = <<>>
    /\ mel = <<>>
    /\ connectors = <<>>
    /\ newconfs = <<>>

\* AddJumpOperator without the rebuild: the derived pair keeps its old value.
AddJumpOperatorStale(op) ==
  /\ Idle
  /\ Len(jump_ops_) < MaxJumps
  /\ jump_ops_' = Append(jump_ops_, op)
  /\ UNCHANGED <<N, H_, Hnh_, Hnh_dag_>>
  /\ EmptyFrame("AddJumpOperator")

\* LocalLindbladian::AddJumpOperator(op)
AddJumpOperator(op) ==
  /\ Idle
  /\ Len(jump_ops_) < MaxJumps
  /\ jump_ops_' = Append(jump_ops_, op)
  /\ Hnh_' = InitDerived(H_, jump_ops_').Hnh
  /\ Hnh_dag_' = InitDerived(H_, jump_ops_').Hnh_dag
  /\ UNCHANGED <<N, H_>>
  /\ EmptyFrame("AddJumpOperator")

\* ------------------------------------------------- ForEachConnSuperOp
ConnectorSuperopRef(m, tr, nr, tc, nc) ==
  [mel |-> m, tochange_row |-> tr, newconf_row |-> nr,
   tochange_col |-> tc, newconf_col |-> nc]

\* The first loop: connections of Hnh_dag_ on vrow, scalar times +i.
RowTerm(hnh_dag, r) ==
  LET cs == LocalForEachConn(hnh_dag, r)
  IN Vec([i \in 1..Len(cs) |->
        ConnectorSuperopRef(CMul(im, cs[i].mel), cs[i].tochange, cs[i].newconf, <<>>, <<>>)])

\* The second loop with the sign of the first.
ColTermPlusI(hnh, c) ==
  LET cs == LocalForEachConn(hnh, c)
  IN Vec([i \in 1..Len(cs) |->
        ConnectorSuperopRef(CMul(im, cs[i].mel), <<>>, <<>>, cs[i].tochange, cs[i].newconf)])

\* The second loop: connections of Hnh_ on vcol, scalar times -i.
ColTerm(hnh, c) ==
  LET cs == LocalForEachConn(hnh, c)
  IN Vec([i \in 1..Len(cs) |->
        ConnectorSuperopRef(CMul(CNeg(im), cs[i].mel), <<>>, <<>>, cs[i].tochange, cs[i].newconf)])

\* Pairs formed position by position instead of every row connection with
\* every column connection.
CrossTermZipped(op, r, c) ==
  LET rows == LocalForEachConn(op, r)
      cols == LocalForEachConn(op, c)
      n == IF Len(rows) < Len(cols) THEN Len(rows) ELSE Len(cols)
  IN Vec([a \in 1..n |->
        ConnectorSuperopRef(CMul(CConj(rows[a].mel), cols[a].mel),
                            rows[a].tochange, rows[a].newconf,
                            cols[a].tochange, cols[a].newconf)])

\* The nesting the wrong way round: for each conn_col, every conn_row.
CrossTermColMajor(op, r, c) ==
  LET rows == LocalForEachConn(op, r)
      cols == LocalForEachConn(op, c)
      inner(b) == [a \in 1..Len(rows) |->
                     ConnectorSuperopRef(CMul(CConj(rows[a].mel), cols[b].mel),
                                         rows[a].tochange, rows[a].newconf,
                                         cols[b].tochange, cols[b].newconf)]
      RECURSIVE outer(_)
      outer(b) == IF b > Len(cols) THEN <<>> ELSE inner(b) \o outer(b + 1)
  IN outer(1)

\* The nested enumeration of one jump operator: for each conn_row, every
\* conn_col.
CrossTerm(op, r, c) ==
  LET rows == LocalForEachConn(op, r)
      cols == LocalForEachConn(op, c)
      inner(a) == [b \in 1..Len(cols) |->
                     ConnectorSuperopRef(CMul(CConj(rows[a].mel), cols[b].mel),
                                         rows[a].tochange, rows[a].newconf,
                                         cols[b].tochange, cols[b].newconf)]
      RECURSIVE outer(_)
      outer(a) == IF a > Len(rows) THEN <<>> ELSE inner(a) \o outer(a + 1)
  IN outer(1)

\* The loop over jump_ops_, from position k on.
RECURSIVE JumpLoop(_, _, _, _)
JumpLoop(ops, r, c, k) ==
  IF k > Len(ops) THEN <<>> ELSE CrossTerm(ops[k], r, c) \o JumpLoop(ops, r, c, k + 1)

\* LocalLindbladian::ForEachConnSuperOp(vrow, vcol, callback): the
\* superoperator-connections the callback receives when nothing fails.
ForEachConnSuperOp(r, c) ==
  RowTerm(Hnh_dag_, r) \o ColTerm(Hnh_, c) \o JumpLoop(jump_ops_, r, c, 1)

\* ------------------------------------------------- the two adapters
\* The transform without the offset.
PlusNothing(s, n) == s

\* std::transform(..., bind2nd(std::plus<int>(), N))
PlusN(s, n) == Vec([i \in 1..Len(s) |-> s[i] + n])

\* The callback ForEachConn hands to ForEachConnSuperOp: the ConnectorRef it
\* passes on.
ForEachConnLambda(conn, n) ==
  [mel |-> conn.mel,
   tochange |-> conn.tochange_row \o PlusN(conn.tochange_col, n),
   newconf |-> conn.newconf_row \o conn.newconf_col]

\* The batch callback with the column offset forgotten.
FindConnLambdaNoOffset(conn, n) ==
  [mel |-> conn.mel,
   tochange |-> conn.tochange_row \o conn.tochange_col,
   newconf |-> conn.newconf_row \o conn.newconf_col]

\* The callback FindConn hands to ForEachConnSuperOp: what it pushes to mel,
\* connectors and newconfs.
FindConnLambda(conn, n) ==
  [mel |-> conn.mel,
   tochange |-> conn.tochange_row \o PlusN(conn.tochange_col, n),
   newconf |-> conn.newconf_row \o conn.newconf_col]

\* The doubled configurations handed to ForEachConn and FindConn: every one
\* of the right length 2N, and one each of length N - 1, N and 2N + 1.
ValidConfs(n) == [1..(2 * n) -> {0, 1}]
InvalidConfs(n) == {Vec([i \in 1..l |-> 0]) : l \in {n - 1, n, 2 * n + 1}}

\* v.head(N) and v.tail(N) on a vector of at least N entries.
VHead(x, n) == SubSeq(x, 1, n)
VTail(x, n) == SubSeq(x, Len(x) - n + 1, Len(x))

\* What the split of v yields.  With fewer than N entries the two blocks
\* reach outside the vector (Eigen checks the bounds only in debug builds):
\* the build either stops at the assertion ("crash") or reads whatever lies
\* beyond the vector's ends.
Splits(x, n) ==
  IF Len(x) >= n
  THEN {[crash |-> FALSE, row |-> VHead(x, n), col |-> VTail(x, n)]}
  ELSE {[crash |-> TRUE, row |-> <<>>, col |-> <<>>]}
       \cup {[crash |-> FALSE, row |-> x \o after, col |-> before \o x] :
               after \in Confs(n - Len(x)), before \in Confs(n - Len(x))}

\* How many callback invocations happen when a failure is raised after the
\* f-th one (f = 0: nothing fails).
Reached(total, f) == IF f = 0 \/ f > total THEN total ELSE f
Outcome(total, f) == IF f = 0 \/ f > total THEN "ok" ELSE "thrown"

\* What the callback of ForEachConn has received once ForEachConnSuperOp has
\* made its first `done` invocations.
ForEachConnDelivered(all, n, done) == Vec([i \in 1..done |-> ForEachConnLambda(all[i], n)])

\* LocalLindbladian::ForEachConn(v, callback)
ForEachConn(x) ==
  /\ Idle
  /\ \E sp \in Splits(x, N) :
       \E all \in {IF sp.crash THEN <<>> ELSE ForEachConnSuperOp(sp.row, sp.col)} :
          \E f \in 0..MaxFault :
            /\ call' = "ForEachConn"
            /\ v' = x
            /\ vrow' = sp.row
            /\ vcol' = sp.col
            /\ prior' = NoContents
            /\ outcome' = IF sp.crash THEN "crash" ELSE Outcome(Len(all), f)
            /\ superconns' = SubSeq(all, 1, Reached(Len(all), f))
            /\ delivered' = ForEachConnDelivered(all, N, Reached(Len(all), f))
            /\ mel' = <<>>
            /\ connectors' = <<>>
            /\ newconfs' = <<>>
            /\ UNCHANGED obj

\* Contents the caller's containers may hold on entry to FindConn that have
\* nothing to do with the call: unequal lengths included.
Junk == [mel |-> <<COne, im>>, connectors |-> << <<0>> >>, newconfs |-> <<>>]

\* std::vector::clear()
Clear(c) == SubSeq(c, 1, 0)

\* The containers filled without the three clear() calls.
FindConnFillAppending(p, all, n, done) ==
  LET items == Vec([i \in 1..done |-> FindConnLambda(all[i], n)])
  IN [mel |-> p.mel \o [i \in 1..done |-> items[i].mel],
      connectors |-> p.connectors \o [i \in 1..done |-> items[i].tochange],
      newconfs |-> p.newconfs \o [i \in 1..done |-> items[i].newconf]]

\* The three containers of FindConn once its callback has run `done` times;
\* p is what they held on entry.
FindConnFill(p, all, n, done) ==
  LET cleared == [mel |-> Clear(p.mel), connectors |-> Clear(p.connectors),
                  newconfs |-> Clear(p.newconfs)]
      items == Vec([i \in 1..done |-> FindConnLambda(all[i], n)])
  IN [mel |-> cleared.mel \o [i \in 1..done |-> items[i].mel],
      connectors |-> cleared.connectors \o [i \in 1..done |-> items[i].tochange],
      newconfs |-> cleared.newconfs \o [i \in 1..done |-> items[i].newconf]]

\* LocalLindbladian::FindConn(v, mel, connectors, newconfs)
FindConn(x) ==
  /\ Idle
  /\ \E sp \in Splits(x, N) :
       \E all \in {IF sp.crash THEN <<>> ELSE ForEachConnSuperOp(sp.row, sp.col)} :
          \* p: unrelated data, or what an earlier, completed FindConn(x) left
          \E f \in 0..MaxFault : \E p \in {Junk, FindConnFill(NoContents, all, N, Len(all))} :
            \E out \in {FindConnFill(p, all, N, Reached(Len(all), f))} :
               /\ call' = "FindConn"
               /\ v' = x
               /\ vrow' = sp.row
               /\ vcol' = sp.col
               /\ prior' = p
               /\ outcome' = IF sp.crash THEN "crash" ELSE Outcome(Len(all), f)
               /\ superconns' = SubSeq(all, 1, Reached(Len(all), f))
               /\ delivered' = <<>>
               /\ mel' = out.mel
               /\ connectors' = out.connectors
               /\ newconfs' = out.newconfs
               /\ UNCHANGED obj

\* The call has returned and the caller is done with what it got: the
\* callback's log and the containers go out of scope.
Return ==
  /\ ~Idle
  /\ EmptyFrame("returned")
  /\ UNCHANGED obj

Next ==
  \/ \E op \in JumpSet(N) : AddJumpOperator(op)
  \/ \E x \in ValidConfs(N) \cup InvalidConfs(N) : ForEachConn(x)
  \/ \E x \in ValidConfs(N) \cup InvalidConfs(N) : FindConn(x)
  \/ Return

Spec == Init /\ [][Next]_vars

\* ------------------------------------------------- properties
\* The last call was an enumeration of a doubled configuration of the right
\* length 2N that ran to its end.
Completed(name) == call = name /\ outcome = "ok" /\ Len(v) = 2 * N

\* The flat connections the last call emitted, whichever variant it was.
Emitted ==
  IF call = "FindConn"
  THEN [i \in 1..Len(mel) |-> [mel |-> mel[i], tochange |-> connectors[i], newconf |-> newconfs[i]]]
  ELSE delivered

\* C1: for a doubled configuration v of length 2N, the three sequences that
\* FindConn leaves behind have one length and, zipped, are the very sequence
\* of (mel, tochange, newconf) that ForEachConn passes to its callback for v
\* on the same object; and what ForEachConn's callback received is what
\* FindConn leaves in cleared containers.
C1_CallbackBatchEquivalence ==
  /\ Completed("FindConn") =>
       LET all == ForEachConnSuperOp(VHead(v, N), VTail(v, N))
           cb == ForEachConnDelivered(all, N, Len(all))
       IN /\ Len(mel) = Len(cb) /\ Len(connectors) = Len(cb) /\ Len(newconfs) = Len(cb)
          /\ \A i \in 1..Len(cb) :
               /\ mel[i] = cb[i].mel
               /\ connectors[i] = cb[i].tochange
               /\ newconfs[i] = cb[i].newconf
  /\ Completed("ForEachConn") =>
       LET all == ForEachConnSuperOp(VHead(v, N), VTail(v, N))
           out == FindConnFill(NoContents, all, N, Len(all))
       IN delivered = [i \in 1..Len(out.mel) |->
                         [mel |-> out.mel[i], tochange |-> out.connectors[i],
                          newconf |-> out.newconfs[i]]]

\* A completed FindConn that emitted at least three connections, one of them
\* changing a row site and a column site.
C1_Witness ==
  /\ Completed("FindConn")
  /\ Len(mel) >= 3
  /\ \E i \in 1..Len(connectors) :
       \E a, b \in 1..Len(connectors[i]) : connectors[i][a] < N /\ connectors[i][b] >= N

\* C2: an enumeration of a configuration whose length is not 2N fails with
\* InvalidArgument: no callback is invoked and no connection is emitted.
C2_InvalidArgument ==
  (call \in {"ForEachConn", "FindConn"} /\ Len(v) # 2 * N) =>
    /\ outcome = "InvalidArgument"
    /\ superconns = <<>>
    /\ Emitted = <<>>

\* Sum of a sequence of complex numbers.
RECURSIVE CSum(_)
CSum(s) == IF s = <<>> THEN CZero ELSE CAdd(s[1], CSum(Tail(s)))

\* Entry (i, j) of (-i/2) * conjugate(transpose(L)) * L, written out: the sum
\* over m of conj(L[m][i]) * L[m][j], times -i/2.
DissipatorEntry(L, i, j) ==
  LET s == CSum([m \in 1..Len(L) |-> CMul(CConj(L[m][i]), L[m][j])])
  IN <<s[2] \div 2, (0 - s[1]) \div 2>>

\* C3: in every state an enumeration can start from, Hnh_ is H_ plus the sum
\* over the current jump-operator list of (-i/2) * L^dagger * L, entry by
\* entry, and Hnh_dag_ is the conjugate transpose of Hnh_.
C3_DerivedPairCurrent ==
  Idle =>
    \A i, j \in 1..Pow2(N) :
      /\ Hnh_[i][j] = CAdd(H_[i][j],
                           CSum([k \in 1..Len(jump_ops_) |-> DissipatorEntry(jump_ops_[k], i, j)]))
      /\ Hnh_dag_[i][j] = <<Hnh_[j][i][1], 0 - Hnh_[j][i][2]>>

\* Two jump operators have been added, the second after the pair had already
\* been rebuilt once, and the pair is neither H_ nor self-adjoint.
C3_Witness ==
  /\ Idle
  /\ Len(jump_ops_) = 2
  /\ Hnh_ # H_
  /\ Hnh_ # Hnh_dag_
  /\ jump_ops_[1] # jump_ops_[2]

\* The connections of the local operators on the two halves, as the
\* properties below refer to them.
RowConns == LocalForEachConn(Hnh_dag_, vrow)
ColConns == LocalForEachConn(Hnh_, vcol)
JumpRows == Vec([k \in 1..Len(jump_ops_) |-> LocalForEachConn(jump_ops_[k], vrow)])
JumpCols == Vec([k \in 1..Len(jump_ops_) |-> LocalForEachConn(jump_ops_[k], vcol)])
\* Entry k: the number of connections emitted before the cross terms of jump
\* operator k; the last entry, one past the list, is the total.
RECURSIVE BlockStarts(_, _, _, _)
BlockStarts(start, jr, jc, k) ==
  IF k > Len(jr) THEN <<start>>
  ELSE <<start>> \o BlockStarts(start + Len(jr[k]) * Len(jc[k]), jr, jc, k + 1)
\* The last call was an enumeration that got as far as splitting v.
Enumerated == call \in {"ForEachConn", "FindConn"} /\ outcome # "crash"

\* C4: the i-th callback invocation of one enumeration is, in this order: the
\* i-th connection of Hnh_dag_ on vrow; then the connections of Hnh_ on vcol;
\* then, operator by operator in list order, the pair (row connection p,
\* column connection q) at position (p - 1) * c + q of that operator's block,
\* i.e. row-connection-major.
C4_EmissionOrder ==
  Enumerated =>
    LET rc == RowConns
        cc == ColConns
        jr == JumpRows
        jc == JumpCols
        a == Len(rc)
        b == Len(cc)
        before == BlockStarts(a + b, jr, jc, 1)
    IN \A i \in 1..Len(superconns) :
         LET x == superconns[i]
         IN IF i <= a
            THEN /\ x.tochange_row = rc[i].tochange /\ x.newconf_row = rc[i].newconf
                 /\ x.tochange_col = <<>> /\ x.newconf_col = <<>>
            ELSE IF i <= a + b
            THEN /\ x.tochange_col = cc[i - a].tochange
                 /\ x.newconf_col = cc[i - a].newconf
                 /\ x.tochange_row = <<>> /\ x.newconf_row = <<>>
            ELSE \E k \in 1..Len(jr) :
                   /\ before[k] < i
                   /\ i <= before[k + 1]
                   /\ LET c == Len(jc[k])
                          p == ((i - before[k] - 1) \div c) + 1
                          q == ((i - before[k] - 1) % c) + 1
                      IN /\ x.tochange_row = jr[k][p].tochange
                         /\ x.newconf_row = jr[k][p].newconf
                         /\ x.tochange_col = jc[k][q].tochange
                         /\ x.newconf_col = jc[k][q].newconf

\* A completed enumeration with all three groups present, two jump operators,
\* and a jump operator with two row and two column connections.
C4_Witness ==
  /\ Enumerated /\ outcome = "ok"
  /\ Len(jump_ops_) = 2
  /\ Len(RowConns) >= 1 /\ Len(ColConns) >= 1
  /\ \A k \in 1..2 : Len(JumpRows[k]) >= 1 /\ Len(JumpCols[k]) >= 1
  /\ \E k \in 1..2 : Len(JumpRows[k]) >= 2 /\ Len(JumpCols[k]) >= 2
  /\ Len(superconns) = BlockStarts(Len(RowConns) + Len(ColConns), JumpRows, JumpCols, 1)[3]

\* C5: every flat connection emitted for a doubled configuration of length 2N
\* has tochange and newconf of one length, the number of row-side plus
\* column-side changes; first the row-side indices as they are, each < N,
\* then each column-side index plus N, each in N .. 2N-1; newconf holds the
\* row-side values and then the column-side values; the indices are pairwise
\* distinct.
C5_IndexOffset ==
  (Enumerated /\ Len(v) = 2 * N) =>
    /\ Len(Emitted) = Len(superconns)
    /\ \A i \in 1..Len(Emitted) :
         LET e == Emitted[i]
             x == superconns[i]
             nr == Len(x.tochange_row)
             nc == Len(x.tochange_col)
         IN /\ Len(e.tochange) = nr + nc
            /\ Len(e.newconf) = nr + nc
            /\ \A j \in 1..nr :
                 /\ e.tochange[j] = x.tochange_row[j]
                 /\ e.tochange[j] >= 0 /\ e.tochange[j] < N
                 /\ e.newconf[j] = x.newconf_row[j]
            /\ \A j \in 1..nc :
                 /\ e.tochange[nr + j] = N + x.tochange_col[j]
                 /\ e.tochange[nr + j] >= N /\ e.tochange[nr + j] < 2 * N
                 /\ e.newconf[nr + j] = x.newconf_col[j]
            /\ \A j, l \in 1..(nr + nc) : j # l => e.tochange[j] # e.tochange[l]

\* On two sites: one flat connection with a row-side and a column-side change,
\* and one that changes both column sites (indices N and N + 1).
C5_Witness ==
  /\ Enumerated /\ Len(v) = 2 * N /\ N = 2
  /\ \E i \in 1..Len(Emitted) :
       /\ Len(superconns[i].tochange_row) >= 1
       /\ Len(superconns[i].tochange_col) >= 1
  /\ \E i \in 1..Len(Emitted) :
       /\ Len(superconns[i].tochange_col) = 2
       /\ Emitted[i].tochange = <<2, 3>>

\* conjugate(a) * b, written out in halves.
ConjTimes(a, b) == <<(a[1] * b[1] + a[2] * b[2]) \div 2, (a[1] * b[2] - a[2] * b[1]) \div 2>>

\* The cross term made of row connection cr and column connection cl.
PairConn(cr, cl) ==
  [mel |-> ConjTimes(cr.mel, cl.mel),
   tochange_row |-> cr.tochange, newconf_row |-> cr.newconf,
   tochange_col |-> cl.tochange, newconf_col |-> cl.newconf]

\* C6: a completed enumeration emits |Hnh_dag_ conns of vrow| + |Hnh_ conns
\* of vcol| + the sum over k of r_k * c_k connections, and the block of jump
\* operator k holds, for every pair (row connection p, column connection q)
\* of that operator, exactly one entry: scalar conj(row mel) * (col mel), the
\* row connection's change on the row side, the column connection's on the
\* column side.
C6_OuterProductCount ==
  (Enumerated /\ outcome = "ok") =>
    LET jr == JumpRows
        jc == JumpCols
        before == BlockStarts(Len(RowConns) + Len(ColConns), jr, jc, 1)
    IN /\ Len(superconns) = before[Len(jr) + 1]
       /\ \A k \in 1..Len(jr) :
            /\ before[k + 1] - before[k] = Len(jr[k]) * Len(jc[k])
            /\ \A p \in 1..Len(jr[k]) : \A q \in 1..Len(jc[k]) :
                 LET pair == PairConn(jr[k][p], jc[k][q])
                 IN Cardinality({i \in (before[k] + 1)..before[k + 1] :
                                   superconns[i] = pair}) = 1

\* A completed enumeration with the same jump operator added twice, two row
\* and two column connections each: two blocks of four, equal entry by entry.
C6_Witness ==
  /\ Enumerated /\ outcome = "ok"
  /\ Len(jump_ops_) = 2
  /\ jump_ops_[1] = jump_ops_[2]
  /\ Len(JumpRows[1]) = 2 /\ Len(JumpCols[1]) = 2
  /\ LET before == BlockStarts(Len(RowConns) + Len(ColConns), JumpRows, JumpCols, 1)
     IN /\ before[3] - before[2] = 4
        /\ \A d \in 1..4 : superconns[before[1] + d] = superconns[before[2] + d]

\* M is its own conjugate transpose.
Hermitian(M) == \A i, j \in 1..Len(M) : M[i][j] = <<M[j][i][1], 0 - M[j][i][2]>>

\* C7: with an empty jump-operator list Hnh_ is H_ (and Hnh_dag_ too when H_
\* is Hermitian), and a completed enumeration emits exactly (+i * mel, row
\* change, no column change) for each connection of Hnh_dag_ on vrow, then
\* (-i * mel, no row change, column change) for each connection of Hnh_ on
\* vcol: nothing else, and nothing with a change on both sides.
C7_ClosedSystem ==
  jump_ops_ = <<>> =>
    /\ Hnh_ = H_
    /\ Hermitian(H_) => Hnh_dag_ = H_
    /\ (Enumerated /\ outcome = "ok") =>
         LET rc == RowConns
             cc == ColConns
         IN /\ superconns =
                 [i \in 1..Len(rc) |->
                    [mel |-> <<0 - rc[i].mel[2], rc[i].mel[1]>>,
                     tochange_row |-> rc[i].tochange, newconf_row |-> rc[i].newconf,
                     tochange_col |-> <<>>, newconf_col |-> <<>>]]
                 \o [i \in 1..Len(cc) |->
                       [mel |-> <<cc[i].mel[2], 0 - cc[i].mel[1]>>,
                        tochange_row |-> <<>>, newconf_row |-> <<>>,
                        tochange_col |-> cc[i].tochange, newconf_col |-> cc[i].newconf]]
            /\ \A i \in 1..Len(superconns) :
                 superconns[i].tochange_row = <<>> \/ superconns[i].tochange_col = <<>>

\* A completed enumeration on an object with no jump operator and a nonzero
\* Hermitian H_ with complex entries: one row-side and one column-side entry.
C7_Witness ==
  /\ jump_ops_ = <<>>
  /\ Enumerated /\ outcome = "ok"
  /\ Hermitian(H_) /\ H_ # ZeroOp(N)
  /\ Len(RowConns) >= 1 /\ Len(ColConns) >= 1
  /\ Len(superconns) = Len(RowConns) + Len(ColConns)

\* The scenario: one site, H = 0, L the flip with matrix element 1.0.
ScenarioBefore == N = 1 /\ H_ = ZeroOp(1) /\ jump_ops_ = <<>> /\ Completed("ForEachConn")
ScenarioAfter ==
  /\ N = 1 /\ H_ = ZeroOp(1) /\ jump_ops_ = <<FlipEach(1)>>
  /\ Completed("ForEachConn") /\ v = <<0, 0>>
ScenarioCross == [mel |-> <<2, 0>>, tochange |-> <<0, 1>>, newconf |-> <<1, 1>>]

\* C8 as stated: no connection before AddJumpOperator(L); after it exactly
\* one connection for [0, 0], the cross term with mel 1.0, tochange [0, 1],
\* newconf [1, 1], Hnh_ and Hnh_dag_ contributing nothing.
C8_ScenarioOneConnection ==
  /\ ScenarioBefore => delivered = <<>>
  /\ ScenarioAfter => delivered = <<ScenarioCross>>

\* C8 amended: no connection before AddJumpOperator(L); after it three
\* connections for [0, 0]: the diagonal entry of Hnh_dag_ = +(i/2) L^dagger L
\* and that of Hnh_ = -(i/2) L^dagger L, each with no change and scalar
\* -1/2, and then the cross term with mel 1.0, tochange [0, 1], newconf
\* [1, 1].
C8_ScenarioThreeConnections ==
  /\ ScenarioBefore => delivered = <<>>
  /\ ScenarioAfter =>
       delivered = << [mel |-> <<0 - 1, 0>>, tochange |-> <<>>, newconf |-> <<>>],
                      [mel |-> <<0 - 1, 0>>, tochange |-> <<>>, newconf |-> <<>>],
                      ScenarioCross >>

\* ForEachConn has completed on [0, 0] after AddJumpOperator(L).
C8_Witness == ScenarioAfter /\ Len(delivered) > 0

\* C9: an enumeration that aborts leaves no partial result: after an aborted
\* FindConn the three output sequences are not a proper, non-empty prefix of
\* the full result.
C9_NoPartialResults ==
  (call = "FindConn" /\ outcome = "thrown") =>
    \/ Len(mel) = 0
    \/ Len(mel) = Len(ForEachConnSuperOp(vrow, vcol))

\* C10: whatever the three containers held on entry, after FindConn returns
\* they have one length and hold the items of this call and nothing else, so
\* containers that already hold the result of FindConn for v hold the same
\* after a second call; and a ForEachConn or FindConn step leaves the
\* Hamiltonian, the jump-operator list, Hnh_ and Hnh_dag_ as they were.
C10_OverwriteNotAppend ==
  /\ [](Completed("FindConn") =>
          /\ Len(mel) = Len(superconns)
          /\ Len(connectors) = Len(superconns)
          /\ Len(newconfs) = Len(superconns)
          /\ \A i \in 1..Len(superconns) :
               /\ mel[i] = superconns[i].mel
               /\ Len(connectors[i]) =
                    Len(superconns[i].tochange_row) + Len(superconns[i].tochange_col)
               /\ Len(newconfs[i]) = Len(connectors[i])
          /\ prior # Junk =>
               prior = [mel |-> mel, connectors |-> connectors, newconfs |-> newconfs])
  /\ [][call' \in {"ForEachConn", "FindConn"} =>
          <<N, H_, jump_ops_, Hnh_, Hnh_dag_>>' = <<N, H_, jump_ops_, Hnh_, Hnh_dag_>>]_vars

\* FindConn has completed with at least two connections on containers that
\* held unrelated data of unequal lengths on entry.
C10_Witness ==
  /\ Completed("FindConn")
  /\ prior = Junk
  /\ Len(mel) >= 2

=============================================================================
